---- MODULE Spec2Model ----
(***************************************************************************)
(* Cursor-based pagination of wataruoguchi/poc-cursor-based-pagination:    *)
(* the cursor codec and the use case (shared/utils/pagination/usecase.ts)  *)
(* and the keyset query builder (shared/utils/pagination/repository.ts).   *)
(*                                                                         *)
(* Values.  A JavaScript value is a record [t |-> tag, v |-> n]:           *)
(*   "null"   null                                                         *)
(*   "num"    the number v                                                 *)
(*   "frac"   the number v + 1/2                                           *)
(*   "bool"   false (v = 0) or true (v = 1)                                *)
(*   "date"   the Date at instant v, its year in 0000..9999                *)
(*   "xdate"  the Date at instant v, its year beyond 9999                  *)
(*   "str"    the v-th string of StrTable (0 is the empty string); the     *)
(*            table is in collation order, so the index orders the strings *)
(*   "isostr" the text YYYY-MM-DDTHH:mm:ss.sssZ of the instant v           *)
(*   "isosec" the text YYYY-MM-DDTHH:mm:ssZ of the instant v               *)
(*   "isobad" a text of that shape that is no date (month 13)              *)
(*   "isoext" the text +YYYYYY-MM-DDTHH:mm:ss.sssZ of the xdate v          *)
(* An absent key (undefined) is a key outside the DOMAIN of the object.    *)
(***************************************************************************)
EXTENDS Integers, Sequences, FiniteSets, TLC

\* ------------------------------------------------------------------ bounds
MaxRows == 4
MaxDate == 2
MaxName == 1
MaxLimit == 2
MaxHist == 4
MaxUsers == 2
MaxCalls == 2
MaxCarts == 3
MaxItems == 2
MaxWrites == 2
MaxNow == 1

\* ------------------------------------------------------------------ values
Null == [t |-> "null", v |-> 0]
Num(n) == [t |-> "num", v |-> n]
Bool(b) == [t |-> "bool", v |-> IF b THEN 1 ELSE 0]
DateV(d) == [t |-> "date", v |-> d]
Str(i) == [t |-> "str", v |-> i]
EmptyStr == Str(0)

StringTags == {"str", "isostr", "isosec", "isobad", "isoext"}
DateTags == {"date", "xdate"}

\* typeof value === "string", "number", "boolean"; value instanceof Date
IsString(x) == x.t \in StringTags
IsNumber(x) == x.t \in {"num", "frac"}
IsBoolean(x) == x.t = "bool"
IsDate(x) == x.t \in DateTags

\* The texts of the "str" values 1.., in collation order ("" is index 0).
StrTable == << <<"A">>, <<"_">>, <<"a">>, <<"a", "B">>, <<"b">> >>
StrText(i) == IF i = 0 THEN <<>> ELSE StrTable[i]

\* JavaScript object spread {...a, ...b}
Spread(a, b) ==
  [k \in (DOMAIN a) \cup (DOMAIN b) |-> IF k \in DOMAIN b THEN b[k] ELSE a[k]]

EmptyObject == [k \in {} |-> Null]

\* ------------------------------------------------------------------ schema
CursorFields == {"cursorValues", "orderBy", "limit", "direction", "filters", "timestamp"}
Directions == {"next", "prev"}

\* limitSchema = z.number().int().positive(), of a value record (the numbers
\* of the model are integers)
limitSchema(x) == IsNumber(x) /\ x.t = "num" /\ x.v > 0
\* directionSchema = z.enum(["next", "prev"]), of a name
directionSchema(x) == x \in Directions

DefaultLimit == 10

getDefaultCursorData(now) ==
  [cursorValues |-> EmptyObject,
   orderBy |-> <<"created_at", "id">>,
   limit |-> Num(DefaultLimit),
   direction |-> "next",
   filters |-> EmptyObject,
   timestamp |-> now]

\* ------------------------------------------------------------------ codec
\* Date.prototype.toISOString
toISOString(x) ==
  IF x.t = "date" THEN [t |-> "isostr", v |-> x.v] ELSE [t |-> "isoext", v |-> x.v]

\* /^\d{4}-\d{2}-\d{2}T\d{2}:\d{2}:\d{2}(\.\d{3})?Z$/.test(value)
isoDateRegexTest(x) == x.t \in {"isostr", "isosec", "isobad"}
\* !Number.isNaN(Date.parse(value)) for a text the regular expression accepts
DateParseOk(x) == x.t \in {"isostr", "isosec"}

\* a detector that never recognises a date string
isISODateStringNever(x) == FALSE

isISODateString(x) == isoDateRegexTest(x) /\ DateParseOk(x)

\* new Date(value) for a text isISODateString accepts
NewDate(x) == DateV(x.v)

\* A token is [kind, doc, nulls]: kind "absent" is undefined, "empty" is "",
\* "nonjson" is a string whose base64 decoding is no JSON text, and "json" is
\* the base64 text of a JSON object: doc holds its keys with a value other
\* than null, nulls is the set of its keys whose value is null.
NoDoc == EmptyObject
AbsentToken == [kind |-> "absent", doc |-> NoDoc, nulls |-> {}]
EmptyToken == [kind |-> "empty", doc |-> NoDoc, nulls |-> {}]
NonJsonToken == [kind |-> "nonjson", doc |-> NoDoc, nulls |-> {}]
JsonToken(doc) == [kind |-> "json", doc |-> doc, nulls |-> {}]

encodeCursor(data) ==
  JsonToken(
    Spread(data,
      [cursorValues |->
         [k \in DOMAIN data.cursorValues |->
            IF IsDate(data.cursorValues[k])
              THEN toISOString(data.cursorValues[k])
              ELSE data.cursorValues[k]]]))

\* data.cursorValues || {} with ISO date strings turned into Dates
ReviveCursorValues(doc) ==
  LET cv == IF "cursorValues" \in DOMAIN doc THEN doc.cursorValues ELSE EmptyObject
  IN [k \in DOMAIN cv |->
        IF IsString(cv[k]) /\ isISODateString(cv[k]) THEN NewDate(cv[k]) ELSE cv[k]]

\* a schema that takes any limit
createCursorSchemaAcceptsAnyLimit(p) ==
  /\ CursorFields \subseteq DOMAIN p
  /\ \A k \in DOMAIN p.cursorValues :
       \/ IsString(p.cursorValues[k]) \/ IsNumber(p.cursorValues[k])
       \/ IsBoolean(p.cursorValues[k]) \/ IsDate(p.cursorValues[k])
       \/ p.cursorValues[k] = Null
  /\ directionSchema(p.direction)
  /\ \A k \in DOMAIN p.filters :
       IsString(p.filters[k]) \/ IsNumber(p.filters[k]) \/ IsBoolean(p.filters[k])

\* createCursorSchema().parse succeeds on an object without null fields
createCursorSchemaAccepts(p) ==
  /\ CursorFields \subseteq DOMAIN p
  /\ \A k \in DOMAIN p.cursorValues :
       \/ IsString(p.cursorValues[k]) \/ IsNumber(p.cursorValues[k])
       \/ IsBoolean(p.cursorValues[k]) \/ IsDate(p.cursorValues[k])
       \/ p.cursorValues[k] = Null
  /\ limitSchema(p.limit)
  /\ directionSchema(p.direction)
  /\ \A k \in DOMAIN p.filters :
       IsString(p.filters[k]) \/ IsNumber(p.filters[k]) \/ IsBoolean(p.filters[k])

\* z.object(...) keeps the declared keys only
createCursorSchemaParse(p) == [k \in CursorFields |-> p[k]]

\* decodeCursor does not throw: the text is JSON and the schema accepts
\* parsedData; a null cursorValues has become {} (data.cursorValues || {}),
\* any other null field fails its schema
decodeCursorOk(token) ==
  /\ token.kind = "json"
  /\ token.nulls \subseteq {"cursorValues"}
  /\ createCursorSchemaAccepts(Spread(token.doc, [cursorValues |-> ReviveCursorValues(token.doc)]))

decodeCursor(token, now) ==
  LET parsedData == Spread(token.doc, [cursorValues |-> ReviveCursorValues(token.doc)])
  IN Spread(getDefaultCursorData(now), createCursorSchemaParse(parsedData))

\* ------------------------------------------------------------------ query builder
Columns == {"id", "created_at", "name"}
TextSearchableColumns == {"name"}
EXTRA_ITEM_FOR_PAGINATION == 1

\* direction === "next" ? [">", "asc"] : ["<", "desc"]
comparisonOf(direction) == IF direction = "next" THEN ">" ELSE "<"
orderOf(direction) == IF direction = "next" THEN "asc" ELSE "desc"

\* value !== undefined && value !== null && value !== ""
\* value !== undefined alone: null and "" count as cursor values
isDefinedOnly(obj, key) == key \in DOMAIN obj

isDefinedAndNotEmpty(obj, key) ==
  key \in DOMAIN obj /\ obj[key] # Null /\ obj[key] # EmptyStr

\* SQL: column <comparison> value, for a value of the column's type
SqlCompare(a, comparison, b) ==
  IF comparison = ">" THEN a.v > b.v ELSE a.v < b.v

\* SQL: lower(text) for ILIKE
LowerChar(c) == IF c = "A" THEN "a" ELSE IF c = "B" THEN "b" ELSE c
Lower(s) == [i \in 1..Len(s) |-> LowerChar(s[i])]
\* SQL: s LIKE p, where % stands for any text and _ for any one character
RECURSIVE LikeMatch(_, _)
LikeMatch(s, p) ==
  IF p = <<>> THEN s = <<>>
  ELSE IF Head(p) = "%"
    THEN LikeMatch(s, Tail(p)) \/ (s # <<>> /\ LikeMatch(Tail(s), p))
    ELSE /\ s # <<>>
         /\ (Head(p) = "_" \/ Head(p) = Head(s))
         /\ LikeMatch(Tail(s), Tail(p))
\* SQL: column ILIKE `%${value}%`
ILikeContains(col, value) ==
  LikeMatch(Lower(StrText(col.v)), <<"%">> \o Lower(StrText(value.v)) \o <<"%">>)

\* the reduce over Object.entries(filters): every where() it adds holds of row
filteredQueryMatches(row, filters) ==
  \A column \in DOMAIN filters :
    IF column \in TextSearchableColumns /\ IsString(filters[column])
         /\ isDefinedAndNotEmpty(filters, column)
      THEN ILikeContains(row[column], filters[column])
      ELSE IF IsNumber(filters[column]) \/ IsBoolean(filters[column])
        THEN row[column] = filters[column]
        ELSE TRUE

filteredQuery(rows, filters) == {r \in rows : filteredQueryMatches(r, filters)}

\* orderBy.filter(isDefinedAndNotEmpty(cursorValues[columnName]))
columnValuesOf(orderBy, cursorValues) ==
  SelectSeq(orderBy, LAMBDA c : isDefinedAndNotEmpty(cursorValues, c))

\* the loop without accumulatedEqualityConditions: (c1 > v1) OR (c2 > v2) OR ...
RECURSIVE cursorLoopNoEquality(_, _, _, _, _, _)
cursorLoopNoEquality(row, cols, cursorValues, comparison, i, eqAcc) ==
  IF i > Len(cols) THEN FALSE
  ELSE \/ SqlCompare(row[cols[i]], comparison, cursorValues[cols[i]])
       \/ cursorLoopNoEquality(row, cols, cursorValues, comparison, i + 1, eqAcc)

\* The for loop of the multi-column case, from index i on, evaluated on row:
\* eqAcc is the conjunction of accumulatedEqualityConditions, and the result
\* is eb.or of the conditions pushed from i on.
RECURSIVE cursorLoop(_, _, _, _, _, _)
cursorLoop(row, cols, cursorValues, comparison, i, eqAcc) ==
  IF i > Len(cols) THEN FALSE
  ELSE \/ (eqAcc /\ SqlCompare(row[cols[i]], comparison, cursorValues[cols[i]]))
       \/ cursorLoop(row, cols, cursorValues, comparison, i + 1,
                     eqAcc /\ row[cols[i]] = cursorValues[cols[i]])

\* the where() that buildCursorWhereCondition adds holds of row
buildCursorWhereCondition(row, orderBy, cursorValues, comparison) ==
  LET cols == columnValuesOf(orderBy, cursorValues)
  IN IF Len(cols) = 0 THEN TRUE
     ELSE IF Len(cols) = 1
       THEN SqlCompare(row[cols[1]], comparison, cursorValues[cols[1]])
       ELSE cursorLoop(row, cols, cursorValues, comparison, 1, TRUE)

\* cursorQuery: the rows of the filtered query the keyset predicate keeps
cursorQuery(rows, d) ==
  IF DOMAIN d.cursorValues # {} /\ Len(d.orderBy) > 0
    THEN {r \in filteredQuery(rows, d.filters) :
            buildCursorWhereCondition(r, d.orderBy, d.cursorValues,
                                      comparisonOf(d.direction))}
    ELSE filteredQuery(rows, d.filters)

\* a count taken after the keyset predicate
fetchTotalCountOfCursorQuery(rows, d) == Cardinality(cursorQuery(rows, d))

\* fetchTotalCount(filteredQuery): select count(*) of the filtered query
fetchTotalCount(rows, d) == Cardinality(filteredQuery(rows, d.filters))

\* SQL ORDER BY c1 <order>, c2 <order>, ...: a comes strictly before b
RECURSIVE SortsBefore(_, _, _, _, _)
SortsBefore(a, b, orderBy, order, i) ==
  IF i > Len(orderBy) THEN FALSE
  ELSE IF a[orderBy[i]] = b[orderBy[i]] THEN SortsBefore(a, b, orderBy, order, i + 1)
  ELSE IF order = "asc" THEN a[orderBy[i]].v < b[orderBy[i]].v
  ELSE a[orderBy[i]].v > b[orderBy[i]].v

\* Every sequence the database may return for ORDER BY over the set S: rows
\* that tie on all orderBy columns come in any order.
RECURSIVE sortedQuery(_, _, _)
sortedQuery(S, orderBy, order) ==
  IF S = {} THEN {<<>>}
  ELSE UNION {{<<m>> \o rest : rest \in sortedQuery(S \ {m}, orderBy, order)} :
              m \in {x \in S : \A y \in S : ~SortsBefore(y, x, orderBy, order, 1)}}

\* LIMIT n
Take(s, n) == SubSeq(s, 1, IF Len(s) < n THEN Len(s) ELSE n)

\* mainQuery: what execute() may return for the descriptor d
mainQuery(rows, d) ==
  {Take(s, d.limit.v + EXTRA_ITEM_FOR_PAGINATION) :
     s \in sortedQuery(cursorQuery(rows, d), d.orderBy, orderOf(d.direction))}

\* a page that keeps the extra row
pageOfKeepsExtraRow(items, totalCount, d) ==
  [items |-> items,
   totalCount |-> totalCount,
   hasMore |-> Len(items) > d.limit.v]

\* a page that reports more rows whenever it is full
pageOfFullHasMore(items, totalCount, d) ==
  [items |-> Take(items, d.limit.v),
   totalCount |-> totalCount,
   hasMore |-> Len(items) >= d.limit.v]

\* the page paginatedQuery returns when execute() returned items
pageOf(items, totalCount, d) ==
  [items |-> Take(items, d.limit.v),
   totalCount |-> totalCount,
   hasMore |-> Len(items) > d.limit.v]

\* ------------------------------------------------------------------ use case
\* encodedCursor && ...
Truthy(token) == token.kind \notin {"absent", "empty"}

\* a parseCursor that falls back to getDefaultCursorData() instead
parseCursorFallsBackToGlobalDefault(defaultCursorData, cursor, now) ==
  IF cursor.kind \in {"absent", "empty"} THEN Spread(defaultCursorData, EmptyObject)
  ELSE IF decodeCursorOk(cursor) THEN Spread(defaultCursorData, decodeCursor(cursor, now))
  ELSE getDefaultCursorData(now)

\* a parseCursor that spreads the default over the decoded cursor
parseCursorDefaultWins(defaultCursorData, cursor, now) ==
  IF cursor.kind \in {"absent", "empty"} THEN Spread(defaultCursorData, EmptyObject)
  ELSE IF decodeCursorOk(cursor) THEN Spread(decodeCursor(cursor, now), defaultCursorData)
  ELSE defaultCursorData

\* parseCursor: the default descriptor overlaid with the decoded cursor; the
\* default itself when decodeCursor throws
parseCursor(defaultCursorData, cursor, now) ==
  IF cursor.kind \in {"absent", "empty"} THEN Spread(defaultCursorData, EmptyObject)
  ELSE IF decodeCursorOk(cursor) THEN Spread(defaultCursorData, decodeCursor(cursor, now))
  ELSE defaultCursorData

\* a limit override that is kept only next to a valid direction
limitOverrideNeedsDirection(filters) ==
  IF "limit" \in DOMAIN filters /\ limitSchema(filters.limit)
       /\ "direction" \in DOMAIN filters /\ directionSchema(filters.direction)
    THEN [limit |-> filters.limit] ELSE EmptyObject

\* the limit and direction paginatedUseCase keeps of its second argument
\* (an object with the keys of `filters`; EmptyObject when it is not given)
limitOverride(filters) ==
  IF "limit" \in DOMAIN filters /\ limitSchema(filters.limit)
    THEN [limit |-> filters.limit] ELSE EmptyObject
directionOverride(filters) ==
  IF "direction" \in DOMAIN filters /\ directionSchema(filters.direction)
    THEN [direction |-> filters.direction] ELSE EmptyObject

\* const decodedCursor = {...parseCursor(..), ...limit, ...direction}
resolveCursor(defaultCursorData, encodedCursor, filters, now) ==
  Spread(Spread(parseCursor(defaultCursorData, encodedCursor, now),
                limitOverride(filters)),
         directionOverride(filters))

\* a createCursorData that does not spread currentCursor
createCursorDataFromDefaults(currentCursor, item, now) ==
  Spread(getDefaultCursorData(now),
    [cursorValues |->
       [c \in {currentCursor.orderBy[i] : i \in 1..Len(currentCursor.orderBy)}
                \cap DOMAIN item |-> item[c]],
     orderBy |-> currentCursor.orderBy])

createCursorData(currentCursor, item, now) ==
  Spread(currentCursor,
    [cursorValues |->
       [c \in {currentCursor.orderBy[i] : i \in 1..Len(currentCursor.orderBy)}
                \cap DOMAIN item |-> item[c]],
     timestamp |-> now])

createNextCursor(currentCursor, lastItem, now) ==
  encodeCursor(Spread(createCursorData(currentCursor, lastItem, now), [direction |-> "next"]))

createPreviousCursor(currentCursor, firstItem, now) ==
  encodeCursor(Spread(createCursorData(currentCursor, firstItem, now), [direction |-> "prev"]))

\* transformItem of the caller: the item itself
transformItem(item) == item

\* responses of a paginatedUseCase that derives its cursors otherwise:
\* nextCursor whenever there are items
respondNextWithoutHasMore(encodedCursor, decodedCursor, page, t) ==
  [data |-> [i \in 1..Len(page.items) |-> transformItem(page.items[i])],
   meta |->
     [nextCursor |->
        IF Len(page.items) > 0
          THEN createNextCursor(decodedCursor, page.items[Len(page.items)], t)
          ELSE AbsentToken,
      previousCursor |->
        IF Truthy(encodedCursor) /\ Len(page.items) > 0
          THEN createPreviousCursor(decodedCursor, page.items[1], t)
          ELSE AbsentToken,
      hasMore |-> page.hasMore,
      totalRowCount |-> page.totalCount]]

\* previousCursor whenever there are items
respondPreviousWithoutInput(encodedCursor, decodedCursor, page, t) ==
  [data |-> [i \in 1..Len(page.items) |-> transformItem(page.items[i])],
   meta |->
     [nextCursor |->
        IF page.hasMore /\ Len(page.items) > 0
          THEN createNextCursor(decodedCursor, page.items[Len(page.items)], t)
          ELSE AbsentToken,
      previousCursor |->
        IF Len(page.items) > 0
          THEN createPreviousCursor(decodedCursor, page.items[1], t)
          ELSE AbsentToken,
      hasMore |-> page.hasMore,
      totalRowCount |-> page.totalCount]]

\* previousCursor only when the input token decodes
respondPreviousWhenDecoded(encodedCursor, decodedCursor, page, t) ==
  [data |-> [i \in 1..Len(page.items) |-> transformItem(page.items[i])],
   meta |->
     [nextCursor |->
        IF page.hasMore /\ Len(page.items) > 0
          THEN createNextCursor(decodedCursor, page.items[Len(page.items)], t)
          ELSE AbsentToken,
      previousCursor |->
        IF Truthy(encodedCursor) /\ decodeCursorOk(encodedCursor) /\ Len(page.items) > 0
          THEN createPreviousCursor(decodedCursor, page.items[1], t)
          ELSE AbsentToken,
      hasMore |-> page.hasMore,
      totalRowCount |-> page.totalCount]]

\* nextCursor from the first item and previousCursor from the last
respondBoundariesSwapped(encodedCursor, decodedCursor, page, t) ==
  [data |-> [i \in 1..Len(page.items) |-> transformItem(page.items[i])],
   meta |->
     [nextCursor |->
        IF page.hasMore /\ Len(page.items) > 0
          THEN createNextCursor(decodedCursor, page.items[1], t)
          ELSE AbsentToken,
      previousCursor |->
        IF Truthy(encodedCursor) /\ Len(page.items) > 0
          THEN createPreviousCursor(decodedCursor, page.items[Len(page.items)], t)
          ELSE AbsentToken,
      hasMore |-> page.hasMore,
      totalRowCount |-> page.totalCount]]

\* What paginatedUseCase returns for the page of the query; an undefined
\* cursor of the meta is AbsentToken.  t is Date.now() while it returns.
respond(encodedCursor, decodedCursor, page, t) ==
  [data |-> [i \in 1..Len(page.items) |-> transformItem(page.items[i])],
   meta |->
     [nextCursor |->
        IF page.hasMore /\ Len(page.items) > 0
          THEN createNextCursor(decodedCursor, page.items[Len(page.items)], t)
          ELSE AbsentToken,
      previousCursor |->
        IF Truthy(encodedCursor) /\ Len(page.items) > 0
          THEN createPreviousCursor(decodedCursor, page.items[1], t)
          ELSE AbsentToken,
      hasMore |-> page.hasMore,
      totalRowCount |-> page.totalCount]]

\* ------------------------------------------------------------------ state
\* Date.now() when the use case instance is created; requests come later
StartTime == 0
FirstNow == StartTime + 1
NoProbe == [kind |-> "none"]

VARIABLES
  db,                    \* the rows of the table behind the query
  defaultDecodedCursor,  \* the default descriptor of the use case instance
  now,                   \* Date.now()
  req,                   \* the request in flight and how far it got
  hist,                  \* the requests answered so far, with their responses
  probe                  \* input and output of a function applied on its own

vars == <<db, defaultDecodedCursor, now, req, hist, probe>>

Row(i, d, n) == [id |-> Num(i), created_at |-> DateV(d), name |-> Str(n)]
AllRows == {Row(i, d, n) : i \in 1..MaxRows, d \in 1..MaxDate, n \in 0..MaxName}
\* id is the primary key, generated as an identity: a table of n rows has the
\* ids 1..n, each with any created_at and any name
Tables ==
  UNION {{{Row(i, cs[i][1], cs[i][2]) : i \in 1..n} :
            cs \in [1..n -> (1..MaxDate) \X (0..MaxName)]} : n \in 0..MaxRows}

DefaultOrderBys == {<<"created_at", "id">>, <<"name", "id">>}
DefaultCursors ==
  {Spread(getDefaultCursorData(StartTime), [orderBy |-> ob, limit |-> Num(l)]) :
     ob \in DefaultOrderBys, l \in 1..MaxLimit}

\* second arguments of paginatedUseCase a caller tries
OverrideArgs ==
  {EmptyObject,
   [limit |-> Num(MaxLimit), direction |-> "prev"],
   [limit |-> Num(0), direction |-> "up"]}

\* cursors a caller makes up rather than follows
ForgedTokens ==
  {NonJsonToken,
   EmptyToken,
   JsonToken([limit |-> Num(1)]),
   encodeCursor([cursorValues |-> [id |-> Num(MaxRows)], orderBy |-> <<"id">>,
                 limit |-> Num(1), direction |-> "prev",
                 filters |-> [name |-> Str(3)], timestamp |-> StartTime]),
   encodeCursor([cursorValues |-> [name |-> Str(1)], orderBy |-> <<"id">>,
                 limit |-> Num(1), direction |-> "next",
                 filters |-> EmptyObject, timestamp |-> StartTime])}

\* req.queries is the number of queries the request has sent to the
\* database, req.before the number of responses returned before it began
IdleReq ==
  [stage |-> "idle", via |-> "none", token |-> AbsentToken, filters |-> EmptyObject,
   decodedCursor |-> getDefaultCursorData(StartTime), totalCount |-> 0,
   queries |-> 0, before |-> 0]

\* a request that sends its failed query again
rejectRetries(r) == [r EXCEPT !.queries = r.queries + 1]

\* an awaited query rejects: neither paginatedQuery nor paginatedUseCase
\* catches, so the promise of paginatedUseCase rejects
reject(r) == [r EXCEPT !.stage = "failed"]

Init ==
  /\ db \in Tables
  /\ defaultDecodedCursor \in DefaultCursors
  /\ now = FirstNow
  /\ req = IdleReq
  /\ hist = <<>>
  /\ probe = NoProbe

\* paginatedUseCase up to its first await: the descriptor is resolved and the
\* count query is sent
Call(via, encodedCursor, filters) ==
  /\ req.stage = "idle"
  /\ Len(hist) < MaxHist
  /\ req' = [stage |-> "count", via |-> via, token |-> encodedCursor,
             filters |-> filters,
             decodedCursor |->
               resolveCursor(defaultDecodedCursor, encodedCursor, filters, now),
             totalCount |-> 0, queries |-> 1, before |-> Len(hist)]
  /\ UNCHANGED <<db, defaultDecodedCursor, now, hist, probe>>

\* a first request, without cursor or with a made-up one
CallFresh ==
  /\ hist = <<>>
  /\ \E token \in {AbsentToken} \cup ForgedTokens, filters \in OverrideArgs :
       Call("fresh", token, filters)

\* the caller follows the nextCursor of the last response
CallNext ==
  /\ hist # <<>>
  /\ Truthy(hist[Len(hist)].resp.meta.nextCursor)
  /\ Call("next", hist[Len(hist)].resp.meta.nextCursor, EmptyObject)

\* the caller follows the previousCursor of the last response
CallPrev ==
  /\ hist # <<>>
  /\ Truthy(hist[Len(hist)].resp.meta.previousCursor)
  /\ Call("prev", hist[Len(hist)].resp.meta.previousCursor, EmptyObject)

\* a count query whose completion makes paginatedUseCase return at once
CountDoneReturns ==
  /\ req.stage = "count"
  /\ \E items \in mainQuery(db, req.decodedCursor) :
       hist' = Append(hist,
            [via |-> req.via, token |-> req.token, filters |-> req.filters,
             decodedCursor |-> req.decodedCursor,
             fetched |-> Len(items),
             resp |-> respond(req.token, req.decodedCursor,
                              pageOf(items, fetchTotalCount(db, req.decodedCursor),
                                     req.decodedCursor), now)])
  /\ req' = IdleReq
  /\ UNCHANGED <<db, defaultDecodedCursor, now, probe>>

\* the count query completes and the main query is sent
CountDone ==
  /\ req.stage = "count"
  /\ req' = [req EXCEPT !.stage = "fetch",
                        !.totalCount = fetchTotalCount(db, req.decodedCursor),
                        !.queries = 2]
  /\ UNCHANGED <<db, defaultDecodedCursor, now, hist, probe>>

\* the count query fails
CountFail ==
  /\ req.stage = "count"
  /\ req' = reject(req)
  /\ UNCHANGED <<db, defaultDecodedCursor, now, hist, probe>>

\* the main query fails
FetchFail ==
  /\ req.stage = "fetch"
  /\ req' = reject(req)
  /\ UNCHANGED <<db, defaultDecodedCursor, now, hist, probe>>

\* the main query completes and paginatedUseCase returns
FetchDone ==
  /\ req.stage = "fetch"
  /\ \E items \in mainQuery(db, req.decodedCursor), t \in now..MaxNow :
       /\ hist' = Append(hist,
            [via |-> req.via, token |-> req.token, filters |-> req.filters,
             decodedCursor |-> req.decodedCursor,
             fetched |-> Len(items),
             resp |-> respond(req.token, req.decodedCursor,
                              pageOf(items, req.totalCount, req.decodedCursor), t)])
       /\ now' = t
  /\ req' = IdleReq
  /\ UNCHANGED <<db, defaultDecodedCursor, probe>>

Next ==
  \/ CallFresh \/ CallNext \/ CallPrev
  \/ CountDone \/ FetchDone
  \/ CountFail \/ FetchFail

Spec == Init /\ [][Next]_vars

\* the other variables of a specification that applies one function
Parked ==
  /\ db = {}
  /\ defaultDecodedCursor = getDefaultCursorData(StartTime)
  /\ now = FirstNow
  /\ req = IdleReq
  /\ hist = <<>>

\* ------------------------------------------------------------------ traversal
Last == hist[Len(hist)]
Idle == req.stage = "idle"

RECURSIVE ConcatData(_)
ConcatData(n) == IF n = 0 THEN <<>> ELSE ConcatData(n - 1) \o hist[n].resp.data

CeilDiv(a, b) == (a + b - 1) \div b

\* the requests so far are a forward traversal: no cursor and no second
\* argument first, then the nextCursor of the previous response each time
ForwardTraversal ==
  /\ hist # <<>>
  /\ hist[1].via = "fresh" /\ hist[1].token = AbsentToken /\ hist[1].filters = EmptyObject
  /\ \A i \in 2..Len(hist) : hist[i].via = "next"

TraversalEnded == Idle /\ ForwardTraversal /\ ~Truthy(Last.resp.meta.nextCursor)

\* the full row set in orderBy order (the default orderBy ends with the key)
FullOrdered ==
  CHOOSE s \in sortedQuery(filteredQuery(db, defaultDecodedCursor.filters),
                           defaultDecodedCursor.orderBy, "asc") : TRUE

\* C1: a forward traversal that ended took ceil(N/L) pages, and its pages
\* concatenated are the full row set in orderBy order, each row once.
C1_NoGapNoDuplicate ==
  TraversalEnded =>
    /\ ConcatData(Len(hist)) = FullOrdered
    /\ Cardinality(db) > 0 =>
         Len(hist) = CeilDiv(Cardinality(db), defaultDecodedCursor.limit.v)

Reverse(q) == [i \in 1..Len(q) |-> q[Len(q) + 1 - i]]

\* hist[1..n] is a forward traversal
ForwardPrefix(n) ==
  /\ n >= 1 /\ n <= Len(hist)
  /\ hist[1].via = "fresh" /\ hist[1].token = AbsentToken /\ hist[1].filters = EmptyObject
  /\ \A i \in 2..n : hist[i].via = "next"

\* C3: for a page P reached by nextCursor, the previousCursor returned with
\* the page after P yields the rows of P in reverse order.
C3_BidirectionalSymmetry ==
  \A i \in 2..Len(hist) :
    (i + 2 <= Len(hist) /\ ForwardPrefix(i + 1) /\ hist[i + 2].via = "prev")
      => hist[i + 2].resp.data = Reverse(hist[i].resp.data)

\* ------------------------------------------------------------------ responses
\* the descriptor of a call without cursor and with the second argument f
NoCursorDescriptor(f) ==
  Spread(Spread(defaultDecodedCursor, limitOverride(f)), directionOverride(f))

\* the data such a call returns (the default orderBy ends with the key)
NoCursorData(f) ==
  CHOOSE data \in {Take(items, NoCursorDescriptor(f).limit.v) :
                     items \in mainQuery(db, NoCursorDescriptor(f))} : TRUE

Rejected(token) == Truthy(token) /\ ~decodeCursorOk(token)

C6_NextCursorIffHasMore ==
  \A i \in 1..Len(hist) :
    LET r == hist[i].resp
    IN /\ Truthy(r.meta.nextCursor) <=> (r.meta.hasMore /\ Len(r.data) > 0)
       /\ (ForwardPrefix(i) /\ Len(r.data) > 0
             /\ r.data[Len(r.data)] = FullOrdered[Len(FullOrdered)])
            => (~r.meta.hasMore /\ ~Truthy(r.meta.nextCursor))

C6_Witness ==
  /\ TraversalEnded /\ Len(hist) >= 2
  /\ Len(Last.resp.data) > 0
  /\ Last.resp.data[Len(Last.resp.data)] = FullOrdered[Len(FullOrdered)]
  /\ Truthy(hist[1].resp.meta.nextCursor)

\* C7: previousCursor is present only when the request carried a cursor and
\* an item was returned; without input cursor there is none, whatever hasMore.
C7_PreviousCursorOnlyWithInput ==
  \A i \in 1..Len(hist) :
    LET r == hist[i].resp
    IN /\ Truthy(r.meta.previousCursor) => (Truthy(hist[i].token) /\ Len(r.data) > 0)
       /\ hist[i].token = AbsentToken => ~Truthy(r.meta.previousCursor)

C7_Witness ==
  /\ Len(hist) >= 2
  /\ hist[1].token = AbsentToken /\ hist[1].resp.meta.hasMore
  /\ Len(hist[1].resp.data) > 0 /\ ~Truthy(hist[1].resp.meta.previousCursor)
  /\ Truthy(hist[2].resp.meta.previousCursor)

DerivedCursors(i) ==
  {c \in {hist[i].resp.meta.nextCursor, hist[i].resp.meta.previousCursor} : Truthy(c)}

\* C8: every derived cursor decodes to a descriptor with the orderBy, limit
\* and filters of the effective descriptor of the request that produced it.
C8_DerivedCursorKeepsQuery ==
  \A i \in 1..Len(hist) : \A c \in DerivedCursors(i) :
    /\ decodeCursorOk(c)
    /\ decodeCursor(c, now).orderBy = hist[i].decodedCursor.orderBy
    /\ decodeCursor(c, now).limit = hist[i].decodedCursor.limit
    /\ decodeCursor(c, now).filters = hist[i].decodedCursor.filters

C8_Witness ==
  \E i \in 1..Len(hist) :
    /\ hist[i].decodedCursor.filters # EmptyObject
    /\ hist[i].decodedCursor.limit # defaultDecodedCursor.limit
    /\ hist[i].decodedCursor.orderBy # defaultDecodedCursor.orderBy
    /\ Truthy(hist[i].resp.meta.nextCursor)
    /\ Truthy(hist[i].resp.meta.previousCursor)

\* the orderBy-column values of an item
OrderByValues(item, orderBy) ==
  [c \in {orderBy[k] : k \in 1..Len(orderBy)} |-> item[c]]

\* JSON.stringify of such values: a Date is its ISO text
Serialized(values) ==
  [c \in DOMAIN values |-> IF IsDate(values[c]) THEN toISOString(values[c]) ELSE values[c]]

\* C9: nextCursor holds the orderBy-column values of the last item and
\* direction next, previousCursor those of the first item and direction prev,
\* in the token and in what the token decodes to, whatever the direction of
\* the request.
C9_CursorValuesFromBoundaryItems ==
  \A i \in 1..Len(hist) :
    LET r == hist[i].resp
        ob == hist[i].decodedCursor.orderBy
        nxt == r.meta.nextCursor
        prv == r.meta.previousCursor
    IN /\ Truthy(nxt) =>
            /\ nxt.doc.cursorValues = Serialized(OrderByValues(r.data[Len(r.data)], ob))
            /\ decodeCursor(nxt, now).cursorValues = OrderByValues(r.data[Len(r.data)], ob)
            /\ decodeCursor(nxt, now).direction = "next"
       /\ Truthy(prv) =>
            /\ prv.doc.cursorValues = Serialized(OrderByValues(r.data[1], ob))
            /\ decodeCursor(prv, now).cursorValues = OrderByValues(r.data[1], ob)
            /\ decodeCursor(prv, now).direction = "prev"

C9_Witness ==
  \E i \in 1..Len(hist) :
    /\ hist[i].decodedCursor.direction = "prev"
    /\ Len(hist[i].resp.data) = 2
    /\ Truthy(hist[i].resp.meta.nextCursor)
    /\ Truthy(hist[i].resp.meta.previousCursor)

\* C10: totalRowCount is the number of rows that satisfy the filters, the
\* same for every cursorValues, direction and limit.
C10_TotalCountOfFilteredRows ==
  /\ \A i \in 1..Len(hist) :
       hist[i].resp.meta.totalRowCount =
         Cardinality({r \in db : filteredQueryMatches(r, hist[i].decodedCursor.filters)})
  /\ \A i, j \in 1..Len(hist) :
       hist[i].decodedCursor.filters = hist[j].decodedCursor.filters
         => hist[i].resp.meta.totalRowCount = hist[j].resp.meta.totalRowCount

C10_Witness ==
  \E i, j \in 1..Len(hist) :
    /\ hist[i].decodedCursor.filters = hist[j].decodedCursor.filters
    /\ hist[i].decodedCursor.filters # EmptyObject
    /\ hist[i].decodedCursor.cursorValues # hist[j].decodedCursor.cursorValues
    /\ hist[i].decodedCursor.direction # hist[j].decodedCursor.direction
    /\ hist[i].resp.meta.totalRowCount > Len(hist[i].resp.data)
    /\ ~hist[i].resp.meta.hasMore

\* ------------------------------------------------------------------ pages
Min(a, b) == IF a < b THEN a ELSE b
Range(q) == {q[k] : k \in 1..Len(q)}

\* C11: the main query returns at most limit + 1 rows; the page has
\* min(limit, n) items, n the number of rows that satisfy the filters and the
\* keyset predicate, they are distinct rows of those n, none of the other rows
\* sorts before one of them, and hasMore is true iff n > limit.
C11_Lookahead ==
  \A i \in 1..Len(hist) :
    LET d == hist[i].decodedCursor
        data == hist[i].resp.data
        n == Cardinality(cursorQuery(db, d))
    IN /\ hist[i].fetched <= d.limit.v + 1
       /\ hist[i].fetched = Min(d.limit.v + 1, n)
       /\ Len(data) = Min(d.limit.v, n)
       /\ Range(data) \subseteq cursorQuery(db, d)
       /\ Cardinality(Range(data)) = Len(data)
       /\ \A r \in cursorQuery(db, d) \ Range(data) : \A k \in 1..Len(data) :
            ~SortsBefore(r, data[k], d.orderBy, orderOf(d.direction), 1)
       /\ hist[i].resp.meta.hasMore <=> n > d.limit.v

C11_Witness ==
  \E i, j \in 1..Len(hist) :
    /\ hist[i].fetched = hist[i].decodedCursor.limit.v + 1
    /\ Len(hist[i].resp.data) = hist[i].decodedCursor.limit.v
    /\ hist[i].resp.meta.hasMore
    /\ DOMAIN hist[i].decodedCursor.cursorValues # {}
    /\ hist[j].fetched = hist[j].decodedCursor.limit.v
    /\ ~hist[j].resp.meta.hasMore

\* a and b differ first on the column orderBy[j], where a has the smaller
\* (asc) or the greater (desc) value
LexBefore(a, b, orderBy, order) ==
  \E j \in 1..Len(orderBy) :
    /\ \A m \in 1..(j - 1) : a[orderBy[m]] = b[orderBy[m]]
    /\ IF order = "asc" THEN a[orderBy[j]].v < b[orderBy[j]].v
                         ELSE a[orderBy[j]].v > b[orderBy[j]].v

\* the items of every page are in lexicographic order of the orderBy columns
PagesSorted ==
  \A i \in 1..Len(hist) :
    \A k, l \in 1..Len(hist[i].resp.data) :
      k < l => ~LexBefore(hist[i].resp.data[l], hist[i].resp.data[k],
                          hist[i].decodedCursor.orderBy,
                          IF hist[i].decodedCursor.direction = "next" THEN "asc" ELSE "desc")

\* the keyset comparison of every request with cursor values runs over the
\* columns of orderBy, all of them and in that sequence
KeysetUsesOrderBy ==
  \A i \in 1..Len(hist) :
    LET d == hist[i].decodedCursor
    IN (DOMAIN d.cursorValues # {} /\ Len(d.orderBy) > 0)
         => columnValuesOf(d.orderBy, d.cursorValues) = d.orderBy

\* C12: the items of a page are sorted lexicographically by the orderBy
\* columns in the orderBy sequence, ascending for next and descending for
\* prev, and the keyset comparison uses the same column sequence.
C12_OrderByAndKeysetAgree == PagesSorted /\ KeysetUsesOrderBy

\* orderBy is not empty and names every key of cursorValues
DescriptorInvariant(d) ==
  /\ Len(d.orderBy) > 0
  /\ DOMAIN d.cursorValues \subseteq Range(d.orderBy)

\* C17: for an input token that decodes, the descriptor handed to the query
\* builder and the descriptors encoded into the returned cursors have a
\* non-empty orderBy that names every key of their cursorValues.
C17_DescriptorInvariant ==
  /\ (req.stage \in {"count", "fetch"} /\ decodeCursorOk(req.token))
       => DescriptorInvariant(req.decodedCursor)
  /\ \A i \in 1..Len(hist) :
       decodeCursorOk(hist[i].token) =>
         /\ DescriptorInvariant(hist[i].decodedCursor)
         /\ \A c \in DerivedCursors(i) : DescriptorInvariant(decodeCursor(c, now))

\* the page of response i ends with the first row of the ordering: no row
\* that satisfies the filters comes before its last item in ascending order
AtStartOfOrdering(i) ==
  LET d == hist[i].decodedCursor
      data == hist[i].resp.data
  IN /\ data # <<>>
     /\ \A r \in filteredQuery(db, d.filters) :
          ~LexBefore(r, data[Len(data)], d.orderBy, "asc")

\* C26: a request with a cursor and direction prev whose page reaches the
\* very start of the ordering answers hasMore false, no nextCursor, and still
\* a previousCursor.
C26_PrevAtStart ==
  \A i \in 1..Len(hist) :
    (hist[i].decodedCursor.direction = "prev" /\ Truthy(hist[i].token)
       /\ AtStartOfOrdering(i)) =>
      /\ ~hist[i].resp.meta.hasMore
      /\ ~Truthy(hist[i].resp.meta.nextCursor)
      /\ Truthy(hist[i].resp.meta.previousCursor)

\* back on page 1 by the previousCursor of page 2, with a full page
C26_Witness ==
  \E i \in 2..Len(hist) :
    /\ hist[i].via = "prev"
    /\ hist[i].token = hist[i - 1].resp.meta.previousCursor
    /\ hist[i].decodedCursor.direction = "prev"
    /\ Len(hist[i].resp.data) = hist[i].decodedCursor.limit.v
    /\ AtStartOfOrdering(i)
    /\ Truthy(hist[i].resp.meta.previousCursor)

\* C28: the page reached by following the nextCursor or the previousCursor of
\* a response has no row of that response's page, whatever the direction of
\* the request that produced it.
C28_NavigationDisjoint ==
  \A i \in 2..Len(hist) :
    hist[i].via \in {"next", "prev"} =>
      Range(hist[i].resp.data) \cap Range(hist[i - 1].resp.data) = {}

\* ------------------------------------------------------------------ requests
\* C18: when the count query or the main query failed, the request has
\* returned no result and has sent no query after the one that failed; the
\* count query is sent once, the main query once and after it.
C18_FailurePropagates ==
  /\ req.stage = "count" => req.queries = 1
  /\ req.stage = "fetch" => req.queries = 2
  /\ req.stage = "failed" =>
       /\ req.queries \in {1, 2}
       /\ Len(hist) = req.before

C18_Witness ==
  /\ req.stage = "failed"
  /\ req.queries = 2
  /\ Len(hist) >= 1
  /\ req.via = "next"

StageSteps ==
  {<<"idle", "count">>, <<"count", "fetch">>, <<"fetch", "idle">>,
   <<"count", "failed">>, <<"fetch", "failed">>}

QueryTables ==
  UNION {{{Row(i, 1, ns[i]) : i \in 1..n} : ns \in [1..n -> 0..Len(StrTable)]} :
           n \in 0..2}

QueryFilters ==
  {EmptyObject, [id |-> Num(1)], [id |-> Str(1)], [name |-> Str(3), id |-> Num(1)]}
    \cup {[name |-> Str(k)] : k \in 0..Len(StrTable)}

QueryDescriptors ==
  [cursorValues : {EmptyObject, [id |-> Num(1)]},
   orderBy : {<<>>, <<"id">>, <<"name", "id">>},
   limit : {Num(l) : l \in 1..MaxLimit}, direction : Directions,
   filters : QueryFilters, timestamp : {StartTime}]

NoPage == [items |-> <<>>, totalCount |-> 0, hasMore |-> FALSE]

InitQuery ==
  /\ Parked
  /\ probe \in [kind : {"query"}, stage : {"in"}, rows : QueryTables,
                d : QueryDescriptors, page : {NoPage}]

\* paginatedQuery(d) is called and returns
Query ==
  /\ probe.kind = "query" /\ probe.stage = "in"
  /\ \E items \in mainQuery(probe.rows, probe.d) :
       probe' = [probe EXCEPT
         !.stage = "out",
         !.page = pageOf(items, fetchTotalCount(probe.rows, probe.d), probe.d)]
  /\ UNCHANGED <<db, defaultDecodedCursor, now, req, hist>>

NextQuery == Query
SpecQuery == InitQuery /\ [][NextQuery]_vars

\* the text s contains the text p, letter case apart
ContainsIgnoreCase(s, p) ==
  \E i \in 0..(Len(s) - Len(p)) : Lower(SubSeq(s, i + 1, i + Len(p))) = Lower(p)

\* the row satisfies every entry of filters, as the claim C13 reads them
SatisfiesFilters(row, filters) ==
  \A column \in DOMAIN filters :
    IF column \in TextSearchableColumns /\ IsString(filters[column])
      THEN ContainsIgnoreCase(StrText(row[column].v), StrText(filters[column].v))
      ELSE (IsNumber(filters[column]) \/ IsBoolean(filters[column]))
             => row[column] = filters[column]

\* C13: the rows paginatedQuery considers, for the items and for totalCount,
\* are exactly those that satisfy every filter entry: a string on a searchable
\* column is contained in the column case-insensitively, a number or boolean
\* equals the column, any other entry is ignored.
C13_FilterComposition ==
  (probe.kind = "query" /\ probe.stage = "out") =>
    LET considered == {r \in probe.rows : SatisfiesFilters(r, probe.d.filters)}
    IN /\ probe.page.totalCount = Cardinality(considered)
       /\ Range(probe.page.items) \subseteq considered
       /\ (DOMAIN probe.d.cursorValues = {})
            => Len(probe.page.items) = Min(probe.d.limit.v, Cardinality(considered))

\* C16: paginatedQuery returns no page for a descriptor whose orderBy is empty.
C16_EmptyOrderByRejected ==
  (probe.kind = "query" /\ probe.stage = "out") => Len(probe.d.orderBy) > 0

\* ------------------------------------------------------------------ concurrent calls
\* Two calls of paginatedUseCase on one use case instance.  A call runs up to
\* its first await, then up to its second, then to its return; the steps of
\* the calls interleave.  probe.calls holds the calls, probe.dflt0 the
\* default descriptor the instance was created with; a call has overlapped
\* when it started while the other was in flight.
Callers == {"a", "b"}
ConcTables == {t \in Tables : Cardinality(t) <= MaxLimit}
ConcTokens == {AbsentToken, NonJsonToken} \cup {tk \in ForgedTokens : decodeCursorOk(tk)}
ConcArgs == {EmptyObject, [limit |-> Num(MaxLimit), direction |-> "prev"]}

NoResp == respond(AbsentToken, getDefaultCursorData(StartTime), NoPage, StartTime)
IdleCall(token, filters) ==
  [stage |-> "idle", token |-> token, filters |-> filters,
   decodedCursor |-> getDefaultCursorData(StartTime), totalCount |-> 0,
   resp |-> NoResp, overlapped |-> FALSE]

\* a call that assigns its descriptor to the shared default
defaultAfterCallAssigned(defaultCursorData, decodedCursor) == decodedCursor

\* the shared default descriptor after a call built its descriptor: the call
\* spreads it into new objects and assigns to no field of it
defaultAfterCall(defaultCursorData, decodedCursor) == defaultCursorData

InitConc ==
  /\ db \in ConcTables
  /\ defaultDecodedCursor \in DefaultCursors
  /\ now = FirstNow
  /\ req = IdleReq
  /\ hist = <<>>
  /\ \E cs \in [Callers -> ConcTokens \X ConcArgs] :
       probe = [kind |-> "conc", dflt0 |-> defaultDecodedCursor,
                calls |-> [c \in Callers |-> IdleCall(cs[c][1], cs[c][2])]]

InFlight(c) == probe.calls[c].stage \in {"count", "fetch"}

\* call c runs up to its first await
ConcStart(c) ==
  /\ probe.kind = "conc" /\ probe.calls[c].stage = "idle"
  /\ LET d == resolveCursor(defaultDecodedCursor, probe.calls[c].token,
                            probe.calls[c].filters, now)
     IN /\ probe' = [probe EXCEPT !.calls[c] =
                [@ EXCEPT !.stage = "count", !.decodedCursor = d,
                          !.overlapped = \E o \in Callers \ {c} : InFlight(o)]]
        /\ defaultDecodedCursor' = defaultAfterCall(defaultDecodedCursor, d)
  /\ UNCHANGED <<db, now, req, hist>>

\* the count query of call c completes
ConcCountDone(c) ==
  /\ probe.kind = "conc" /\ probe.calls[c].stage = "count"
  /\ probe' = [probe EXCEPT !.calls[c] =
         [@ EXCEPT !.stage = "fetch",
                   !.totalCount = fetchTotalCount(db, probe.calls[c].decodedCursor)]]
  /\ UNCHANGED <<db, defaultDecodedCursor, now, req, hist>>

\* the main query of call c completes and the call returns
ConcFetchDone(c) ==
  /\ probe.kind = "conc" /\ probe.calls[c].stage = "fetch"
  /\ \E items \in mainQuery(db, probe.calls[c].decodedCursor), t \in now..MaxNow :
       /\ probe' = [probe EXCEPT !.calls[c] =
              [@ EXCEPT !.stage = "done",
                        !.resp = respond(probe.calls[c].token, probe.calls[c].decodedCursor,
                                         pageOf(items, probe.calls[c].totalCount,
                                                probe.calls[c].decodedCursor), t)]]
       /\ now' = t
  /\ UNCHANGED <<db, defaultDecodedCursor, req, hist>>

NextConc ==
  \E c \in Callers : ConcStart(c) \/ ConcCountDone(c) \/ ConcFetchDone(c)
SpecConc == InitConc /\ [][NextConc]_vars

\* a cursor with its timestamp left out of the comparison
SansTimestamp(token) ==
  IF Truthy(token) THEN [token EXCEPT !.doc = Spread(token.doc, [timestamp |-> StartTime])]
  ELSE token

Comparable(resp) ==
  [data |-> resp.data, hasMore |-> resp.meta.hasMore,
   totalRowCount |-> resp.meta.totalRowCount,
   nextCursor |-> SansTimestamp(resp.meta.nextCursor),
   previousCursor |-> SansTimestamp(resp.meta.previousCursor)]

\* the descriptor and the responses of the call c when it runs alone on the
\* instance as created
AloneDescriptor(c) ==
  resolveCursor(probe.dflt0, probe.calls[c].token, probe.calls[c].filters, StartTime)
AloneResponses(c) ==
  {Comparable(respond(probe.calls[c].token, AloneDescriptor(c),
                      pageOf(items, Cardinality(filteredQuery(db, AloneDescriptor(c).filters)),
                             AloneDescriptor(c)), StartTime)) :
     items \in mainQuery(db, AloneDescriptor(c))}

\* C20: however the steps of the calls interleave, the shared default
\* descriptor keeps its value, the descriptor of a call in flight is the one
\* it resolves alone, and a call returns the data, hasMore, totalRowCount and
\* cursors (timestamps apart) it returns alone.
C20_ConcurrentCallsIndependent ==
  probe.kind = "conc" =>
    /\ defaultDecodedCursor = probe.dflt0
    /\ \A c \in Callers :
         /\ probe.calls[c].stage # "idle"
              => probe.calls[c].decodedCursor = AloneDescriptor(c)
         /\ probe.calls[c].stage = "done"
              => Comparable(probe.calls[c].resp) \in AloneResponses(c)

C20_Witness ==
  /\ probe.kind = "conc"
  /\ \A c \in Callers : probe.calls[c].stage = "done" /\ Len(probe.calls[c].resp.data) > 0
  /\ probe.calls["b"].overlapped
  /\ decodeCursorOk(probe.calls["a"].token)
  /\ probe.calls["a"].decodedCursor # probe.calls["b"].decodedCursor
  /\ probe.calls["a"].resp.data # probe.calls["b"].resp.data

\* ------------------------------------------------------------------ paginatedQuery twice
TwiceDescriptors ==
  [cursorValues : {EmptyObject},
   orderBy : {<<"id">>, <<"name">>, <<"created_at">>, <<"created_at", "id">>,
              <<"name", "id">>},
   limit : {Num(l) : l \in 1..MaxLimit}, direction : Directions,
   filters : {EmptyObject}, timestamp : {StartTime}]

InitTwice ==
  /\ Parked
  /\ probe \in [kind : {"twice"}, stage : {"in"}, rows : ConcTables,
                d : TwiceDescriptors, page : {NoPage}, again : {NoPage}]

\* paginatedQuery(d) is called and returns
QueryOnce ==
  /\ probe.kind = "twice" /\ probe.stage = "in"
  /\ \E items \in mainQuery(probe.rows, probe.d) :
       probe' = [probe EXCEPT
         !.stage = "once",
         !.page = pageOf(items, fetchTotalCount(probe.rows, probe.d), probe.d)]
  /\ UNCHANGED <<db, defaultDecodedCursor, now, req, hist>>

\* paginatedQuery(d) is called again on the same rows and returns
QueryAgain ==
  /\ probe.kind = "twice" /\ probe.stage = "once"
  /\ \E items \in mainQuery(probe.rows, probe.d) :
       probe' = [probe EXCEPT
         !.stage = "twice",
         !.again = pageOf(items, fetchTotalCount(probe.rows, probe.d), probe.d)]
  /\ UNCHANGED <<db, defaultDecodedCursor, now, req, hist>>

NextTwice == QueryOnce \/ QueryAgain
SpecTwice == InitTwice /\ [][NextTwice]_vars

\* C21: two calls of paginatedQuery with the same descriptor on the same rows
\* return the same page: the same items in the same order, the same
\* totalCount and the same hasMore.
C21_Deterministic ==
  (probe.kind = "twice" /\ probe.stage = "twice") => probe.again = probe.page

\* ------------------------------------------------------------------ traversal under writes
\* A forward traversal while another client inserts and deletes rows.
\* probe.nextId is the next identity value of the table, probe.writes the
\* number of writes so far, probe.stable the rows that were there at the
\* beginning and have not been deleted.
InitWrites ==
  /\ db \in ConcTables
  /\ defaultDecodedCursor \in DefaultCursors
  /\ now = FirstNow
  /\ req = IdleReq
  /\ hist = <<>>
  /\ probe = [kind |-> "writes", stable |-> db, nextId |-> Cardinality(db) + 1,
              writes |-> 0]

\* the first request of the traversal: no cursor, no second argument
CallFirst ==
  /\ hist = <<>>
  /\ Call("fresh", AbsentToken, EmptyObject)

\* another client inserts a row; the key comes from the identity sequence
Insert ==
  /\ probe.kind = "writes" /\ probe.writes < MaxWrites
  /\ \E d \in 1..MaxDate, n \in 0..MaxName :
       db' = db \cup {Row(probe.nextId, d, n)}
  /\ probe' = [probe EXCEPT !.nextId = probe.nextId + 1, !.writes = probe.writes + 1]
  /\ UNCHANGED <<defaultDecodedCursor, now, req, hist>>

\* another client deletes a row
Delete ==
  /\ probe.kind = "writes" /\ probe.writes < MaxWrites
  /\ \E r \in db :
       /\ db' = db \ {r}
       /\ probe' = [probe EXCEPT !.stable = probe.stable \ {r},
                                 !.writes = probe.writes + 1]
  /\ UNCHANGED <<defaultDecodedCursor, now, req, hist>>

NextWrites ==
  \/ CallFirst \/ CallNext
  \/ CountDone \/ FetchDone
  \/ Insert \/ Delete
SpecWrites == InitWrites /\ [][NextWrites]_vars

\* C22: when a forward traversal has ended, whatever rows were inserted and
\* deleted meanwhile, no row was returned twice and every row that was there
\* all the time was returned.
C22_StableUnderWrites ==
  (probe.kind = "writes" /\ TraversalEnded) =>
    LET returned == ConcatData(Len(hist))
    IN /\ Cardinality(Range(returned)) = Len(returned)
       /\ probe.stable \subseteq Range(returned)

\* C29: a response never has more items than its totalRowCount, also when
\* rows are inserted or deleted between the count query and the main query.
C29_ItemsWithinTotal ==
  \A i \in 1..Len(hist) : Len(hist[i].resp.data) <= hist[i].resp.meta.totalRowCount

\* ------------------------------------------------------------------ filters in the second argument
\* One request without cursor whose second argument carries filter values,
\* either as the controller collects them from the query string (?name=a)
\* or nested under the key filters.
FilterArgs ==
  { [name |-> Str(3)],
    [name |-> Str(3), limit |-> Num(MaxLimit)],
    [filters |-> [name |-> Str(3)]],
    [id |-> Num(1)] }

InitFilterArg ==
  /\ db \in ConcTables
  /\ defaultDecodedCursor \in DefaultCursors
  /\ now = FirstNow
  /\ req = IdleReq
  /\ hist = <<>>
  /\ probe = [kind |-> "filterArg"]

CallWithFilters ==
  /\ hist = <<>>
  /\ \E filters \in FilterArgs : Call("fresh", AbsentToken, filters)

NextFilterArg == CallWithFilters \/ CountDone \/ FetchDone
SpecFilterArg == InitFilterArg /\ [][NextFilterArg]_vars

\* the column filters the caller put into the second argument
CallerFilters(arg) ==
  LET given == IF "filters" \in DOMAIN arg THEN arg.filters ELSE arg
  IN [column \in DOMAIN given \cap {"id", "name", "created_at"} |-> given[column]]

\* C23: the filters of the second argument are applied: every returned row
\* matches them and totalRowCount is the number of rows matching them.
C23_CallerFiltersApplied ==
  \A i \in 1..Len(hist) :
    LET filters == CallerFilters(hist[i].filters)
    IN /\ \A k \in 1..Len(hist[i].resp.data) :
            SatisfiesFilters(hist[i].resp.data[k], filters)
       /\ hist[i].resp.meta.totalRowCount =
            Cardinality({row \in db : SatisfiesFilters(row, filters)})

\* ------------------------------------------------------------------ invalid cursor
\* A request without cursor, then the same request with a cursor that does
\* not decode; probe.filters is the second argument of both.
InitInvalid ==
  /\ db \in ConcTables
  /\ defaultDecodedCursor \in DefaultCursors
  /\ now = FirstNow
  /\ req = IdleReq
  /\ hist = <<>>
  /\ probe \in [kind : {"invalid"}, filters : OverrideArgs]

CallWithoutCursor ==
  /\ probe.kind = "invalid" /\ hist = <<>>
  /\ Call("fresh", AbsentToken, probe.filters)

CallWithInvalidCursor ==
  /\ probe.kind = "invalid" /\ Len(hist) = 1
  /\ \E token \in {tk \in ForgedTokens : Truthy(tk) /\ ~decodeCursorOk(tk)} :
       Call("fresh", token, probe.filters)

NextInvalid == CallWithoutCursor \/ CallWithInvalidCursor \/ CountDone \/ FetchDone
SpecInvalid == InitInvalid /\ [][NextInvalid]_vars

CartUsers == 1..MaxUsers
CartCallers == 1..MaxCalls
CartProducts == {1}

NoCall == [pc |-> "idle", userId |-> 0]

InitCart ==
  /\ Parked
  /\ probe = [kind |-> "cart", carts |-> {}, items |-> {},
              calls |-> [p \in CartCallers |-> NoCall],
              clock |-> 1]

CartsOf(userId) == {c \in probe.carts : c.person_id = userId}
OpenedCartsOf(userId) == {c \in CartsOf(userId) : c.status = "Opened"}

\* findByUserIdOrCreate, first statement: the latest cart of the user is
\* selected; the call goes on to create one only when there is none
FindSelect(p) ==
  /\ probe.kind = "cart" /\ probe.calls[p].pc = "idle"
  /\ \E userId \in CartUsers :
       /\ CartsOf(userId) = {}
       /\ probe' = [probe EXCEPT !.calls[p] = [pc |-> "create", userId |-> userId]]
  /\ UNCHANGED <<db, defaultDecodedCursor, now, req, hist>>

\* findByUserIdOrCreate, second statement: insertInto shopping_cart; id,
\* status "Opened" and created_at now() are the column defaults
FindInsert(p) ==
  /\ probe.kind = "cart" /\ probe.calls[p].pc = "create"
  /\ Cardinality(probe.carts) < MaxCarts
  /\ \E tick \in {0, 1} :
       probe' = [probe EXCEPT
         !.carts = probe.carts \cup
            {[id |-> Cardinality(probe.carts) + 1,
              person_id |-> probe.calls[p].userId,
              status |-> "Opened",
              created_at |-> probe.clock]},
         !.calls[p] = NoCall,
         !.clock = probe.clock + tick]
  /\ UNCHANGED <<db, defaultDecodedCursor, now, req, hist>>

\* addItem: one insert ... select, a row for every Opened cart of the user
AddItem ==
  /\ probe.kind = "cart"
  /\ \E userId \in CartUsers, itemId \in CartProducts :
       LET target == OpenedCartsOf(userId)
       IN /\ target # {}
          /\ Cardinality(probe.items) + Cardinality(target) <= MaxItems
          /\ probe' = [probe EXCEPT !.items = probe.items \cup
               {[shopping_cart_id |-> c.id, product_id |-> itemId,
                 created_at |-> probe.clock,
                 n |-> Cardinality({i \in probe.items : i.shopping_cart_id = c.id}) + 1]
                  : c \in target}]
  /\ UNCHANGED <<db, defaultDecodedCursor, now, req, hist>>

\* removeItem: deletes the latest row of the product in an Opened cart of the
\* user
RemoveItem ==
  /\ probe.kind = "cart"
  /\ \E userId \in CartUsers, itemId \in CartProducts :
       LET found == {i \in probe.items :
                       /\ i.product_id = itemId
                       /\ \E c \in OpenedCartsOf(userId) : c.id = i.shopping_cart_id}
       IN \E i \in found :
            /\ \A j \in found : j.created_at <= i.created_at
            /\ probe' = [probe EXCEPT !.items = probe.items \ {i}]
  /\ UNCHANGED <<db, defaultDecodedCursor, now, req, hist>>

\* closeCart: every Opened cart of the user becomes Closed
CloseCart ==
  /\ probe.kind = "cart"
  /\ \E userId \in CartUsers :
       /\ OpenedCartsOf(userId) # {}
       /\ probe' = [probe EXCEPT !.carts =
            {IF c \in OpenedCartsOf(userId) THEN [c EXCEPT !.status = "Closed"] ELSE c
               : c \in probe.carts}]
  /\ UNCHANGED <<db, defaultDecodedCursor, now, req, hist>>

NextCart ==
  \/ \E p \in CartCallers : FindSelect(p)
  \/ \E p \in CartCallers : FindInsert(p)
  \/ AddItem \/ RemoveItem \/ CloseCart
SpecCart == InitCart /\ [][NextCart]_vars

\* C30: each user has at most one cart with status Opened, and no other cart
\* of the user is newer than an Opened one.
C30_OneOpenedCart ==
  probe.kind = "cart" =>
    \A userId \in CartUsers :
      /\ Cardinality(OpenedCartsOf(userId)) <= 1
      /\ \A c \in OpenedCartsOf(userId) : \A other \in CartsOf(userId) :
           other.created_at <= c.created_at

\* ------------------------------------------------------------------ overrides alone
ResolveLimits ==
  {Num(0 - 1), Num(0), Num(1), Num(MaxLimit + 1), [t |-> "frac", v |-> 1],
   Str(1), Bool(TRUE), Null}
ResolveDirections == {"next", "prev", "up", "NEXT", ""}

\* second arguments: any of the keys limit and direction, with any value
ResolveArgs ==
  {EmptyObject}
    \cup {[limit |-> l] : l \in ResolveLimits}
    \cup {[direction |-> dir] : dir \in ResolveDirections}
    \cup {[limit |-> l, direction |-> dir] : l \in ResolveLimits, dir \in ResolveDirections}

InitResolve ==
  /\ Parked
  /\ probe \in [kind : {"resolve"}, stage : {"in"}, dflt : DefaultCursors,
                token : {AbsentToken} \cup ForgedTokens, filters : ResolveArgs,
                out : {getDefaultCursorData(StartTime)}]

\* paginatedUseCase builds decodedCursor
Resolve ==
  /\ probe.kind = "resolve" /\ probe.stage = "in"
  /\ probe' = [probe EXCEPT
         !.stage = "out",
         !.out = resolveCursor(probe.dflt, probe.token, probe.filters, now)]
  /\ UNCHANGED <<db, defaultDecodedCursor, now, req, hist>>

NextResolve == Resolve
SpecResolve == InitResolve /\ [][NextResolve]_vars

PositiveInteger(x) == x.t = "num" /\ x.v >= 1

\* C14: the descriptor handed to the query has the override limit iff that is
\* a positive integer and the override direction iff that is next or prev,
\* each decided on its own; otherwise it keeps the value resolved from the
\* cursor, and every other field is the resolved one.
C14_OverridesIndependent ==
  (probe.kind = "resolve" /\ probe.stage = "out") =>
    LET resolved == parseCursor(probe.dflt, probe.token, now)
        f == probe.filters
    IN /\ probe.out.limit =
            IF "limit" \in DOMAIN f /\ PositiveInteger(f.limit)
              THEN f.limit ELSE resolved.limit
       /\ probe.out.direction =
            IF "direction" \in DOMAIN f /\ f.direction \in {"next", "prev"}
              THEN f.direction ELSE resolved.direction
       /\ \A k \in CursorFields \ {"limit", "direction"} : probe.out[k] = resolved[k]

C14_Witness ==
  /\ probe.kind = "resolve" /\ probe.stage = "out"
  /\ decodeCursorOk(probe.token)
  /\ probe.filters = [limit |-> Num(MaxLimit + 1), direction |-> "up"]
  /\ probe.out.limit = Num(MaxLimit + 1)
  /\ probe.out.direction = "prev"

\* the override of field k in the second argument f, when it is a valid one
ValidOverride(f, k) ==
  /\ k \in DOMAIN f
  /\ IF k = "limit" THEN PositiveInteger(f[k]) ELSE f[k] \in {"next", "prev"}

\* C25: when the token decodes, the descriptor handed to the query takes
\* cursorValues, orderBy and filters from the decoded cursor, and limit and
\* direction from it too unless a valid override replaces them; when no token
\* is given, the descriptor is the component's default with the valid
\* overrides applied.
C25_ResolutionPrecedence ==
  (probe.kind = "resolve" /\ probe.stage = "out") =>
    LET f == probe.filters
        base == IF decodeCursorOk(probe.token) THEN decodeCursor(probe.token, now)
                ELSE probe.dflt
    IN (decodeCursorOk(probe.token) \/ probe.token = AbsentToken) =>
         /\ \A k \in {"cursorValues", "orderBy", "filters"} : probe.out[k] = base[k]
         /\ \A k \in {"limit", "direction"} :
              probe.out[k] = IF ValidOverride(f, k) THEN f[k] ELSE base[k]
         /\ probe.token = AbsentToken => probe.out.timestamp = probe.dflt.timestamp

\* a decoded cursor that differs from the default in every field, with a
\* limit override
C25_Witness ==
  /\ probe.kind = "resolve" /\ probe.stage = "out"
  /\ decodeCursorOk(probe.token)
  /\ probe.filters = [limit |-> Num(MaxLimit + 1)]
  /\ probe.out.limit = Num(MaxLimit + 1)
  /\ probe.out.limit # probe.dflt.limit
  /\ probe.out.orderBy # probe.dflt.orderBy
  /\ probe.out.cursorValues # probe.dflt.cursorValues
  /\ probe.out.filters # probe.dflt.filters
  /\ probe.out.direction # probe.dflt.direction

\* ------------------------------------------------------------------ decodeCursor alone
DecodeBaseDocs ==
  {encodeCursor(d).doc :
     d \in [cursorValues : {EmptyObject, [id |-> Num(1), created_at |-> DateV(1)]},
            orderBy : DefaultOrderBys, limit : {Num(1)}, direction : Directions,
            filters : {EmptyObject, [name |-> Str(1)]}, timestamp : {StartTime}]}

\* a JSON value that is an object or an array
Nested == [t |-> "obj", v |-> 0]

\* doc with one field given another value
DecodeAlteredDocs(doc) ==
  {Spread(doc, [limit |-> l]) :
     l \in {Num(0), Num(0 - 1), [t |-> "frac", v |-> 1], Str(1), Bool(TRUE), Nested}}
  \cup {Spread(doc, [direction |-> dir]) : dir \in {"up", ""}}
  \cup {Spread(doc, [cursorValues |-> [id |-> v]]) : v \in {Nested, [t |-> "frac", v |-> 1]}}
  \cup {Spread(doc, [filters |-> [name |-> v]]) : v \in {Nested, Null, Num(1)}}

\* doc with some fields kept, some set to null and the others dropped
DecodePartialTokens(doc) ==
  UNION {{[kind |-> "json", doc |-> [k \in kept |-> doc[k]], nulls |-> nulls] :
            nulls \in SUBSET (CursorFields \ kept)} : kept \in SUBSET CursorFields}

\* tokens handed to decodeCursor: text that is no JSON, and JSON objects made
\* of a descriptor by dropping fields, setting fields to null or altering one
DecodeTokens ==
  {AbsentToken, EmptyToken, NonJsonToken}
    \cup UNION {DecodePartialTokens(doc) : doc \in DecodeBaseDocs}
    \cup UNION {{JsonToken(alt) : alt \in DecodeAlteredDocs(doc)} : doc \in DecodeBaseDocs}

InitDecode ==
  /\ Parked
  /\ probe \in [kind : {"decode"}, stage : {"in"},
                token : DecodeTokens,
                ok : {FALSE}, out : {getDefaultCursorData(StartTime)}]

\* decodeCursor(token) returns or throws
DecodeAny ==
  /\ probe.kind = "decode" /\ probe.stage = "in"
  /\ probe' = [probe EXCEPT
         !.stage = "out",
         !.ok = decodeCursorOk(probe.token),
         !.out = IF decodeCursorOk(probe.token) THEN decodeCursor(probe.token, now)
                 ELSE probe.out]
  /\ UNCHANGED <<db, defaultDecodedCursor, now, req, hist>>

NextDecode == DecodeAny
SpecDecode == InitDecode /\ [][NextDecode]_vars

JsonScalarTags == StringTags \cup {"num", "frac", "bool"}

\* the field of the JSON object is there, not null, and of the schema's type
FieldConforms(token, field) ==
  /\ field \in DOMAIN token.doc
  /\ field \notin token.nulls
  /\ CASE field = "cursorValues" ->
            \A k \in DOMAIN token.doc.cursorValues :
              token.doc.cursorValues[k].t \in JsonScalarTags \cup {"null"}
       [] field = "limit" -> PositiveInteger(token.doc.limit)
       [] field = "direction" -> token.doc.direction \in {"next", "prev"}
       [] field = "filters" ->
            \A k \in DOMAIN token.doc.filters : token.doc.filters[k].t \in JsonScalarTags
       [] OTHER -> TRUE

CursorValuesOmitted(token) ==
  "cursorValues" \notin DOMAIN token.doc

KeysetOrderBys ==
  {<<"id">>, <<"name">>, <<"created_at", "id">>, <<"name", "id">>,
   <<"created_at", "name", "id">>, <<"name", "created_at", "id">>}

\* cursor values of a column: a value of its type, null or ""
CursorValuesOf(column) ==
  {Null, EmptyStr} \cup
    (IF column = "id" THEN {Num(i) : i \in 1..MaxRows}
     ELSE IF column = "created_at" THEN {DateV(d) : d \in 1..MaxDate}
     ELSE {Str(n) : n \in 1..MaxName})

KeysetCursorValues ==
  UNION {{cv \in [keys -> UNION {CursorValuesOf(c) : c \in keys}] :
            \A c \in keys : cv[c] \in CursorValuesOf(c)} : keys \in SUBSET Columns}

InitKeyset ==
  /\ Parked
  /\ probe \in [kind : {"keyset"}, row : AllRows, orderBy : KeysetOrderBys,
                cursorValues : KeysetCursorValues, direction : Directions,
                done : {FALSE}, out : {FALSE}]

\* the where() of buildCursorWhereCondition is evaluated on the row
ApplyKeyset ==
  /\ probe.kind = "keyset" /\ ~probe.done
  /\ probe' = [probe EXCEPT !.done = TRUE,
         !.out = buildCursorWhereCondition(probe.row, probe.orderBy, probe.cursorValues,
                                           comparisonOf(probe.direction))]
  /\ UNCHANGED <<db, defaultDecodedCursor, now, req, hist>>

NextKeyset == ApplyKeyset
SpecKeyset == InitKeyset /\ [][NextKeyset]_vars

\* strict lexicographic order of two integer tuples of the same length
RECURSIVE TupleGreater(_, _)
TupleGreater(a, b) ==
  /\ a # <<>>
  /\ \/ Head(a) > Head(b)
     \/ Head(a) = Head(b) /\ TupleGreater(Tail(a), Tail(b))

\* C2: with c1..cn the orderBy columns that have a defined non-empty cursor
\* value (n >= 1), the predicate holds of a row iff the row's (c1..cn) is
\* lexicographically greater than the cursor's (v1..vn) for next, and less
\* for prev; with n = 1 it is the single comparison.
C2_KeysetIsLexicographic ==
  probe.done =>
    LET cols == columnValuesOf(probe.orderBy, probe.cursorValues)
        rowTuple == [i \in 1..Len(cols) |-> probe.row[cols[i]].v]
        curTuple == [i \in 1..Len(cols) |-> probe.cursorValues[cols[i]].v]
    IN /\ Len(cols) >= 1 =>
            (probe.out <=> IF probe.direction = "next"
                             THEN TupleGreater(rowTuple, curTuple)
                             ELSE TupleGreater(curTuple, rowTuple))
       /\ Len(cols) = 1 =>
            (probe.out <=> IF probe.direction = "next"
                             THEN rowTuple[1] > curTuple[1]
                             ELSE rowTuple[1] < curTuple[1])

\* a row kept by the tie-break term alone: equal on c1, greater on c2
C2_Witness ==
  /\ probe.done /\ probe.out /\ probe.direction = "next"
  /\ LET cols == columnValuesOf(probe.orderBy, probe.cursorValues)
     IN /\ Len(cols) = 3
        /\ probe.row[cols[1]] = probe.cursorValues[cols[1]]
        /\ probe.row[cols[2]] = probe.cursorValues[cols[2]]
        /\ probe.row[cols[3]].v > probe.cursorValues[cols[3]].v

\* the orderBy columns whose cursor value is there and is neither null nor ""
ValuedColumns(orderBy, cursorValues) ==
  SelectSeq(orderBy, LAMBDA c : c \in DOMAIN cursorValues
                                /\ cursorValues[c] \notin {Null, EmptyStr})

\* C24: when no orderBy column has a cursor value (key absent, null or ""),
\* the keyset predicate keeps every row, so the page starts at the first row;
\* when some orderBy column has no cursor value and others have one, the
\* predicate is the comparison over the columns that have one.
C24_FirstPageRule ==
  (probe.kind = "keyset" /\ probe.done) =>
    LET cols == ValuedColumns(probe.orderBy, probe.cursorValues)
        rowTuple == [i \in 1..Len(cols) |-> probe.row[cols[i]].v]
        curTuple == [i \in 1..Len(cols) |-> probe.cursorValues[cols[i]].v]
    IN /\ Len(cols) = 0 => probe.out
       /\ (Len(cols) > 0 /\ Len(cols) < Len(probe.orderBy)) =>
            (probe.out <=> IF probe.direction = "next"
                             THEN TupleGreater(rowTuple, curTuple)
                             ELSE TupleGreater(curTuple, rowTuple))

\* a prev query whose two orderBy columns carry null and "": every row is kept
C24_Witness ==
  /\ probe.kind = "keyset" /\ probe.done /\ probe.out
  /\ probe.direction = "prev"
  /\ Len(probe.orderBy) = 2
  /\ ValuedColumns(probe.orderBy, probe.cursorValues) = <<>>
  /\ \E c \in Range(probe.orderBy) :
       c \in DOMAIN probe.cursorValues /\ probe.cursorValues[c] = Null
  /\ \E c \in Range(probe.orderBy) :
       c \in DOMAIN probe.cursorValues /\ probe.cursorValues[c] = EmptyStr

\* ------------------------------------------------------------------ codec alone
CodecValues ==
  {Null, Num(1), Bool(TRUE), DateV(1), [t |-> "xdate", v |-> 1], EmptyStr, Str(1),
   [t |-> "isostr", v |-> 1], [t |-> "isosec", v |-> 1], [t |-> "isobad", v |-> 0],
   [t |-> "isoext", v |-> 1]}

CodecCursorValues ==
  UNION {[keys -> CodecValues] : keys \in SUBSET {"created_at", "id"}}

CodecFilters == {EmptyObject, [name |-> Str(1)], [id |-> Num(1), name |-> Bool(FALSE)]}

\* valid descriptors: what createCursorSchema accepts
CodecDescriptors ==
  [cursorValues : CodecCursorValues, orderBy : DefaultOrderBys,
   limit : {Num(l) : l \in 1..MaxLimit}, direction : Directions,
   filters : CodecFilters, timestamp : StartTime..MaxNow]

InitCodec ==
  /\ Parked
  /\ probe \in [kind : {"codec"}, stage : {"in"}, d : CodecDescriptors,
                token : {AbsentToken}, ok : {FALSE},
                out : {getDefaultCursorData(StartTime)}]

Encode ==
  /\ probe.kind = "codec" /\ probe.stage = "in"
  /\ probe' = [probe EXCEPT !.stage = "encoded", !.token = encodeCursor(probe.d)]
  /\ UNCHANGED <<db, defaultDecodedCursor, now, req, hist>>

Decode ==
  /\ probe.kind = "codec" /\ probe.stage = "encoded"
  /\ probe' = [probe EXCEPT
         !.stage = "decoded",
         !.ok = decodeCursorOk(probe.token),
         !.out = IF decodeCursorOk(probe.token) THEN decodeCursor(probe.token, now)
                 ELSE probe.out]
  /\ UNCHANGED <<db, defaultDecodedCursor, now, req, hist>>

NextCodec == Encode \/ Decode
SpecCodec == InitCodec /\ [][NextCodec]_vars

\* C4 as stated: decodeCursor(encodeCursor(d)) equals d for every valid d
C4_RoundTrip ==
  probe.stage = "decoded" => probe.ok /\ probe.out = probe.d

\* C4 amended: decodeCursor(encodeCursor(d)) succeeds and equals d field by
\* field, except in cursorValues, where a string of the ISO date shape that
\* parses as a date comes back as that Date and a Date whose year is beyond
\* four digits comes back as its ISO text; every other cursor value, Dates of
\* a four-digit year included, comes back unchanged.
C4_RoundTripModuloDateStrings ==
  probe.stage = "decoded" =>
    /\ probe.ok
    /\ \A f \in CursorFields \ {"cursorValues"} : probe.out[f] = probe.d[f]
    /\ DOMAIN probe.out.cursorValues = DOMAIN probe.d.cursorValues
    /\ \A k \in DOMAIN probe.d.cursorValues :
         LET v == probe.d.cursorValues[k]
             w == probe.out.cursorValues[k]
         IN IF v.t \in {"isostr", "isosec"} THEN w = DateV(v.v)
            ELSE IF v.t = "xdate" THEN w = [t |-> "isoext", v |-> v.v]
            ELSE w = v

\* a descriptor with a Date cursor value and filters that came back equal
C4_Witness ==
  /\ probe.stage = "decoded" /\ probe.ok /\ probe.out = probe.d
  /\ "created_at" \in DOMAIN probe.d.cursorValues
  /\ probe.d.cursorValues["created_at"] = DateV(1)
  /\ probe.d.filters # EmptyObject

====
